---- MODULE Spec2Model ----
(***************************************************************************)
(* tinycrdt: a YATA-style sequence CRDT.  A Doc owns an item store keyed   *)
(* by ID, a clock, a state vector, a pending buffer and a head pointer.    *)
(* Local edits (insert / delete) go through find_pos and split_item; the   *)
(* Crdt trait (apply / diff / state_vector) is modelled as the source      *)
(* implements it.                                                          *)
(***************************************************************************)
EXTENDS Integers, Sequences, FiniteSets, TLC

(* ---------------- bounds ---------------- *)

\* local edits of a replica are enabled while its clock is below this
MaxClock == 4
\* where several replicas edit, edits are enabled while the clocks of all
\* replicas together are below this
MaxNetClock == 3
\* largest start position / delete length tried by the edit actions
MaxPos == 4
\* largest start position / delete length where several replicas edit
MaxNetPos == 1
\* longest update handed to apply
MaxUpdateLen == 1

\* replica ids (Doc::client_id) of the documents
Replicas == {1, 2, 3}
\* the replica that edits in the single-document specification
Local == 1
\* the replica whose items the single document receives
Peer == 2
\* texts handed to insert: sequences of Unicode scalar values
Texts == {<<>>, <<"x">>, <<"y", "z">>}

(* ---------------- data model ---------------- *)

\* Option<ID>: None is the empty tuple, Some(id) the one-element tuple
None == <<>>
Some(id) == <<id>>
IsSome(o) == o # None
Unwrap(o) == o[1]

\* ID { client, clock }
MkID(client, clock) == [client |-> client, clock |-> clock]

\* Item { id, left, right, content, is_deleted }
MkItem(id, left, right, content, is_deleted) ==
    [id |-> id, left |-> left, right |-> right,
     content |-> content, is_deleted |-> is_deleted]

\* a map with one more (or one overwritten) binding: HashMap::insert
MapInsert(m, k, v) ==
    [x \in (DOMAIN m) \cup {k} |-> IF x = k THEN v ELSE m[x]]

\* Doc::new(client_id)
NewDoc(client_id) ==
    [client_id    |-> client_id,
     clock        |-> 0,
     items        |-> <<>>,
     pending      |-> <<>>,
     state_vector |-> <<>>,
     head         |-> None]

\* text.chars().count()
CharCount(text) == Len(text)

\* chars.by_ref().take(offset).collect()
TakeChars(content, offset) == SubSeq(content, 1, offset)

\* the rest of the chars iterator after take(offset)
RestChars(content, offset) == SubSeq(content, offset + 1, Len(content))

(* ---------------- Doc: private helpers ---------------- *)

\* next_id that advances the clock by one per call instead of by the
\* character count
NextIdPerCall(doc, text) ==
    LET id == MkID(doc.client_id, doc.clock)
        clock2 == doc.clock + 1
    IN [id  |-> id,
        doc |-> [doc EXCEPT !.clock = clock2,
                            !.state_vector =
                                MapInsert(@, doc.client_id, clock2 - 1)]]

\* Doc::next_id: the minted id and the document with clock and state
\* vector advanced
NextId(doc, text) ==
    LET id == MkID(doc.client_id, doc.clock)
        clock2 == doc.clock + CharCount(text)
    IN [id  |-> id,
        doc |-> [doc EXCEPT !.clock = clock2,
                            !.state_vector =
                                MapInsert(@, doc.client_id, clock2 - 1)]]

\* the while loop of Doc::find_pos, from `current` with `index` visible
\* characters already passed and `left` the last visible item passed
RECURSIVE FindPosLoop(_, _, _, _, _)
FindPosLoop(doc, pos, index, left, current) ==
    IF current = None
    THEN [left |-> left, right |-> None, offset |-> 0]
    ELSE LET id == Unwrap(current)
             item == doc.items[id]
             len == CharCount(item.content)
         IN IF item.is_deleted
            THEN FindPosLoop(doc, pos, index, left, item.right)
            ELSE IF index + len > pos
                 THEN [left |-> left, right |-> Some(id), offset |-> pos - index]
                 ELSE FindPosLoop(doc, pos, index + len, Some(id), item.right)

\* find_pos that never records the visible item it has passed
FindPosNoLeft(doc, pos) ==
    [FindPosLoop(doc, pos, 0, None, doc.head) EXCEPT !.left = None]

\* Doc::find_pos
FindPos(doc, pos) == FindPosLoop(doc, pos, 0, None, doc.head)

\* split that keeps the first offset characters under the original id and
\* gives the rest to the new item
SplitItemSwapped(doc, item_id, offset) ==
    LET item == doc.items[item_id]
        minted == NextId(doc, TakeChars(item.content, offset))
        left_split == MkItem(minted.id, item.left, Some(item_id),
                             RestChars(item.content, offset), FALSE)
        items1 == [minted.doc.items EXCEPT
                     ![item_id].content = TakeChars(item.content, offset),
                     ![item_id].left = Some(minted.id)]
        items2 == MapInsert(items1, minted.id, left_split)
        items3 == IF IsSome(item.left)
                  THEN [items2 EXCEPT ![Unwrap(item.left)].right = Some(minted.id)]
                  ELSE items2
    IN [id  |-> minted.id,
        doc |-> [minted.doc EXCEPT
                   !.items = items3,
                   !.head = IF IsSome(item.left) THEN @ ELSE Some(minted.id)]]

\* split that takes the current clock as the id of the left part and leaves
\* the clock where it was
SplitItemStaleClock(doc, item_id, offset) ==
    LET item == doc.items[item_id]
        item_left == item.left
        left_content == TakeChars(item.content, offset)
        right_content == RestChars(item.content, offset)
        left_split_id == MkID(doc.client_id, doc.clock)
        left_split == MkItem(left_split_id, item_left, Some(item_id),
                             left_content, FALSE)
        items1 == [doc.items EXCEPT ![item_id].content = right_content,
                                    ![item_id].left = Some(left_split_id)]
        items2 == MapInsert(items1, left_split_id, left_split)
        items3 == IF IsSome(item_left)
                  THEN [items2 EXCEPT ![Unwrap(item_left)].right =
                                          Some(left_split_id)]
                  ELSE items2
        head3 == IF IsSome(item_left) THEN doc.head ELSE Some(left_split_id)
    IN [id  |-> left_split_id,
        doc |-> [doc EXCEPT !.items = items3, !.head = head3]]

\* Doc::split_item: the id of the new left part and the document after
SplitItem(doc, item_id, offset) ==
    LET item == doc.items[item_id]
        item_left == item.left
        left_content == TakeChars(item.content, offset)
        right_content == RestChars(item.content, offset)
        minted == NextId(doc, left_content)
        left_split_id == minted.id
        left_split == MkItem(left_split_id, item_left, Some(item_id),
                             left_content, FALSE)
        d1 == minted.doc
        items1 == [d1.items EXCEPT ![item_id].content = right_content,
                                   ![item_id].left = Some(left_split_id)]
        items2 == MapInsert(items1, left_split_id, left_split)
        items3 == IF IsSome(item_left)
                  THEN [items2 EXCEPT ![Unwrap(item_left)].right =
                                          Some(left_split_id)]
                  ELSE items2
        head3 == IF IsSome(item_left) THEN d1.head ELSE Some(left_split_id)
    IN [id  |-> left_split_id,
        doc |-> [d1 EXCEPT !.items = items3, !.head = head3]]

\* Doc::try_link, Doc::link, Doc::resolve_pending: empty bodies
TryLink(doc, item) == doc
Link(doc, item) == doc
ResolvePending(doc) == doc

(* ---------------- DocIterator and value ---------------- *)

\* DocIterator: the non-deleted items met walking right from `current`
RECURSIVE IterFrom(_, _)
IterFrom(doc, current) ==
    IF current = None
    THEN <<>>
    ELSE LET item == doc.items[Unwrap(current)]
         IN IF item.is_deleted
            THEN IterFrom(doc, item.right)
            ELSE <<item>> \o IterFrom(doc, item.right)

\* concatenation of the contents of a sequence of items
RECURSIVE Concat(_)
Concat(its) ==
    IF its = <<>> THEN <<>> ELSE Head(its).content \o Concat(Tail(its))

\* SequenceCrdt::value
Value(doc) == Concat(IterFrom(doc, doc.head))

(* ---------------- SequenceCrdt: insert and delete ---------------- *)

\* insert that forgets to split: the text lands before the item that
\* contains pos
InsertNoSplit(doc, pos, text) ==
    IF text = <<>>
    THEN doc
    ELSE LET fp == FindPos(doc, pos)
             minted == NextId(doc, text)
             new_id == minted.id
             d2 == minted.doc
             new_item == MkItem(new_id, fp.left, fp.right, text, FALSE)
             items1 == MapInsert(d2.items, new_id, new_item)
             items2 == IF IsSome(fp.left)
                       THEN [items1 EXCEPT ![Unwrap(fp.left)].right = Some(new_id)]
                       ELSE items1
             items3 == IF IsSome(fp.right)
                       THEN [items2 EXCEPT ![Unwrap(fp.right)].left = Some(new_id)]
                       ELSE items2
         IN [d2 EXCEPT !.items = items3,
                       !.head = IF IsSome(fp.left) THEN d2.head ELSE Some(new_id)]

\* insert that stores only the first character of the text in the new item
InsertFirstChar(doc, pos, text) ==
    IF text = <<>>
    THEN doc
    ELSE LET fp == FindPos(doc, pos)
             right_id == fp.right
             doSplit == IsSome(right_id) /\ fp.offset > 0
             sp == SplitItem(doc, Unwrap(right_id), fp.offset)
             left_id == IF doSplit THEN Some(sp.id) ELSE fp.left
             d1 == IF doSplit THEN sp.doc ELSE doc
             minted == NextId(d1, text)
             new_id == minted.id
             d2 == minted.doc
             new_item == MkItem(new_id, left_id, right_id,
                                TakeChars(text, 1), FALSE)
             items1 == MapInsert(d2.items, new_id, new_item)
             items2 == IF IsSome(left_id)
                       THEN [items1 EXCEPT ![Unwrap(left_id)].right = Some(new_id)]
                       ELSE items1
             head2 == IF IsSome(left_id) THEN d2.head ELSE Some(new_id)
             items3 == IF IsSome(right_id)
                       THEN [items2 EXCEPT ![Unwrap(right_id)].left = Some(new_id)]
                       ELSE items2
         IN [d2 EXCEPT !.items = items3, !.head = head2]

\* insert that does not repoint the left pointer of the right neighbour
InsertNoBackLink(doc, pos, text) ==
    IF text = <<>>
    THEN doc
    ELSE LET fp == FindPos(doc, pos)
             right_id == fp.right
             doSplit == IsSome(right_id) /\ fp.offset > 0
             sp == SplitItem(doc, Unwrap(right_id), fp.offset)
             left_id == IF doSplit THEN Some(sp.id) ELSE fp.left
             d1 == IF doSplit THEN sp.doc ELSE doc
             minted == NextId(d1, text)
             new_id == minted.id
             d2 == minted.doc
             new_item == MkItem(new_id, left_id, right_id, text, FALSE)
             items1 == MapInsert(d2.items, new_id, new_item)
             items2 == IF IsSome(left_id)
                       THEN [items1 EXCEPT ![Unwrap(left_id)].right = Some(new_id)]
                       ELSE items1
             head2 == IF IsSome(left_id) THEN d2.head ELSE Some(new_id)
         IN [d2 EXCEPT !.items = items2, !.head = head2]

\* SequenceCrdt::insert
Insert(doc, pos, text) ==
    IF text = <<>>
    THEN doc
    ELSE LET fp == FindPos(doc, pos)
             right_id == fp.right
             doSplit == IsSome(right_id) /\ fp.offset > 0
             sp == SplitItem(doc, Unwrap(right_id), fp.offset)
             left_id == IF doSplit THEN Some(sp.id) ELSE fp.left
             d1 == IF doSplit THEN sp.doc ELSE doc
             minted == NextId(d1, text)
             new_id == minted.id
             d2 == minted.doc
             new_item == MkItem(new_id, left_id, right_id, text, FALSE)
             items1 == MapInsert(d2.items, new_id, new_item)
             items2 == IF IsSome(left_id)
                       THEN [items1 EXCEPT ![Unwrap(left_id)].right = Some(new_id)]
                       ELSE items1
             head2 == IF IsSome(left_id) THEN d2.head ELSE Some(new_id)
             items3 == IF IsSome(right_id)
                       THEN [items2 EXCEPT ![Unwrap(right_id)].left = Some(new_id)]
                       ELSE items2
         IN [d2 EXCEPT !.items = items3, !.head = head2]

\* delete loop that flips the flag of an item it meets already deleted
RECURSIVE DeleteLoopToggle(_, _, _)
DeleteLoopToggle(doc, current_id, remaining) ==
    IF remaining = 0 \/ current_id \notin DOMAIN doc.items
    THEN doc
    ELSE LET item == doc.items[current_id]
             item_len == CharCount(item.content)
             next == item.right
             d1 == [doc EXCEPT !.items[current_id].is_deleted = ~@]
         IN IF item.is_deleted
            THEN IF next = None
                 THEN d1
                 ELSE DeleteLoopToggle(d1, Unwrap(next), remaining)
            ELSE IF remaining < item_len
                 THEN LET sp == SplitItem(doc, current_id, remaining)
                      IN [sp.doc EXCEPT !.items[sp.id].is_deleted = TRUE]
                 ELSE IF next = None
                      THEN d1
                      ELSE DeleteLoopToggle(d1, Unwrap(next),
                                            remaining - item_len)

\* delete loop that also takes the partial branch when the remaining length
\* equals the item length
RECURSIVE DeleteLoopInclusive(_, _, _)
DeleteLoopInclusive(doc, current_id, remaining) ==
    IF remaining = 0
    THEN doc
    ELSE IF current_id \notin DOMAIN doc.items
    THEN doc
    ELSE LET item == doc.items[current_id]
             item_len == CharCount(item.content)
             next == item.right
         IN IF item.is_deleted
            THEN IF next = None
                 THEN doc
                 ELSE DeleteLoopInclusive(doc, Unwrap(next), remaining)
            ELSE IF remaining <= item_len
                 THEN LET sp == SplitItem(doc, current_id, remaining)
                      IN [sp.doc EXCEPT !.items[sp.id].is_deleted = TRUE]
                 ELSE LET d1 == [doc EXCEPT
                                   !.items[current_id].is_deleted = TRUE]
                      IN IF next = None
                         THEN d1
                         ELSE DeleteLoopInclusive(d1, Unwrap(next),
                                                  remaining - item_len)

\* the `while remaining > 0` loop of SequenceCrdt::delete
RECURSIVE DeleteLoop(_, _, _)
DeleteLoop(doc, current_id, remaining) ==
    IF remaining = 0
    THEN doc
    ELSE IF current_id \notin DOMAIN doc.items
    THEN doc
    ELSE LET item == doc.items[current_id]
             item_len == CharCount(item.content)
             next == item.right
         IN IF item.is_deleted
            THEN IF next = None
                 THEN doc
                 ELSE DeleteLoop(doc, Unwrap(next), remaining)
            ELSE IF remaining < item_len
                 THEN LET sp == SplitItem(doc, current_id, remaining)
                      IN [sp.doc EXCEPT !.items[sp.id].is_deleted = TRUE]
                 ELSE LET d1 == [doc EXCEPT
                                   !.items[current_id].is_deleted = TRUE]
                      IN IF next = None
                         THEN d1
                         ELSE DeleteLoop(d1, Unwrap(next),
                                         remaining - item_len)

\* delete without the early return for len == 0
DeleteSplitsOnZero(doc, pos, len) ==
    LET fp == FindPos(doc, pos)
    IN IF fp.right = None
       THEN doc
       ELSE LET current_id == Unwrap(fp.right)
                d1 == IF fp.offset > 0
                      THEN SplitItem(doc, current_id, fp.offset).doc
                      ELSE doc
            IN DeleteLoop(d1, current_id, len)

\* delete that starts at the item containing pos without splitting it
DeleteNoStartSplit(doc, pos, len) ==
    IF len = 0
    THEN doc
    ELSE LET fp == FindPos(doc, pos)
         IN IF fp.right = None
            THEN doc
            ELSE DeleteLoop(doc, Unwrap(fp.right), len)

\* SequenceCrdt::delete
Delete(doc, pos, len) ==
    IF len = 0
    THEN doc
    ELSE LET fp == FindPos(doc, pos)
         IN IF fp.right = None
            THEN doc
            ELSE LET current_id == Unwrap(fp.right)
                     d1 == IF fp.offset > 0
                           THEN SplitItem(doc, current_id, fp.offset).doc
                           ELSE doc
                 IN DeleteLoop(d1, current_id, len)

(* ---------------- Crdt: apply, diff, state_vector ---------------- *)

\* apply that buffers every item of the update in pending
ApplyBuffers(doc, update) == [doc EXCEPT !.pending = @ \o update]

\* apply that stores the items and makes the first of the update the head
ApplyHeadFirst(doc, update) ==
    IF update = <<>>
    THEN doc
    ELSE [doc EXCEPT
            !.items = [id \in (DOMAIN @) \cup {it.id : it \in {update[i] : i \in 1..Len(update)}} |->
                          IF id \in DOMAIN @ THEN @[id]
                          ELSE [(CHOOSE it \in {update[i] : i \in 1..Len(update)} : it.id = id)
                                    EXCEPT !.left = None, !.right = None]],
            !.head = Some(update[1].id)]

\* Crdt::apply: the body is empty
Apply(doc, update) == doc

\* Crdt::diff: Vec::<Item>::new()
Diff(doc, remote) == <<>>

\* state_vector that answers an empty map
StateVectorEmpty(doc) == <<>>

\* Crdt::state_vector: a clone of the map
StateVector(doc) == doc.state_vector

(* ---------------- conflict resolution ---------------- *)

\* std::cmp::Ordering
Less == "Less"
Equal == "Equal"
Greater == "Greater"

\* Ordering::reverse
Reverse(o) == IF o = Less THEN Greater ELSE IF o = Greater THEN Less ELSE Equal

\* Ord for u64
IntCmp(m, n) == IF m < n THEN Less ELSE IF m > n THEN Greater ELSE Equal

\* Ord for ID: lexicographic by (replica id, clock)
IdCmp(a, b) ==
    IF a.client # b.client
    THEN IntCmp(a.client, b.client)
    ELSE IntCmp(a.clock, b.clock)

\* resolve that looks at the clocks only
ResolveClockOnly(a, b, doc) == IntCmp(a.id.clock, b.id.clock)

\* YataResolver::resolve: a.id.cmp(&b.id), the store is not read
Resolve(a, b, doc) == IdCmp(a.id, b.id)

(* ---------------- the replicas as a state machine ---------------- *)

VARIABLES
    docs,   \* replica id -> its Doc
    last,   \* the call made last: its arguments, outcome and the state before
    held    \* the map the caller got from its latest state_vector() call

vars == <<docs, last, held>>

ItemsOf(update) == {update[i] : i \in 1..Len(update)}
StoreOf(doc) == {doc.items[id] : id \in DOMAIN doc.items}

\* updates a sender can emit: its stored items, in any order, without
\* repetition
Updates(doc) ==
    {u \in UNION {[1..n -> StoreOf(doc)] : n \in 0..MaxUpdateLen} :
        \A i, j \in 1..Len(u) : i # j => u[i] # u[j]}

NoCall ==
    [op |-> "none", r |-> 0, from |-> 0, pos |-> 0, len |-> 0, text |-> <<>>,
     update |-> <<>>, full |-> FALSE, mirror |-> FALSE, result |-> "Ok",
     pre |-> NewDoc(0)]

\* no state_vector() call made yet
NoSnapshot == [r |-> 0, sv |-> <<>>]

Init ==
    /\ docs = [r \in Replicas |-> NewDoc(r)]
    /\ last = NoCall
    /\ held = NoSnapshot

\* replica r calls insert(pos, text); the method returns unit
CallInsert(r, pos, text, budget) ==
    /\ budget > 0
    /\ LET d2 == Insert(docs[r], pos, text)
       IN /\ docs' = [docs EXCEPT ![r] = d2]
          /\ last' = [NoCall EXCEPT !.op = "insert", !.r = r, !.pos = pos,
                                    !.text = text, !.pre = docs[r]]
    /\ UNCHANGED held

\* replica r calls delete(pos, len); the method returns unit
CallDelete(r, pos, len, budget) ==
    /\ budget > 0
    /\ LET d2 == Delete(docs[r], pos, len)
       IN /\ docs' = [docs EXCEPT ![r] = d2]
          /\ last' = [NoCall EXCEPT !.op = "delete", !.r = r, !.pos = pos,
                                    !.len = len, !.pre = docs[r]]
    /\ UNCHANGED held

\* replica r calls apply(update) with items taken from replica s.  The
\* record of the call notes whether the update carried the whole store of s
\* (full) and whether the call before was s applying the whole store of r
\* (mirror): after such a pair r and s have exchanged everything they hold.
CallApply(r, s, update) ==
    /\ r # s
    /\ docs' = [docs EXCEPT ![r] = Apply(@, update)]
    /\ last' = [NoCall EXCEPT
                  !.op = "apply", !.r = r, !.from = s, !.update = update,
                  !.full = (ItemsOf(update) = StoreOf(docs[s])),
                  !.mirror = (/\ last.op = "apply" /\ last.full
                              /\ last.r = s /\ last.from = r),
                  !.pre = docs[r]]
    /\ UNCHANGED held

\* replica r sends state_vector() to s and applies the diff s answers
CallSync(r, s) ==
    /\ r # s
    /\ LET update == Diff(docs[s], StateVector(docs[r]))
       IN /\ docs' = [docs EXCEPT ![r] = Apply(@, update)]
          /\ last' = [NoCall EXCEPT !.op = "sync", !.r = r, !.from = s,
                                    !.update = update, !.pre = docs[r]]
    /\ UNCHANGED held

\* replica r calls value(): &self, the String goes to the caller
CallValue(r) ==
    /\ Value(docs[r]) \in Seq({"x", "y", "z"})
    /\ last' = [NoCall EXCEPT !.op = "value", !.r = r, !.pre = docs[r]]
    /\ UNCHANGED <<docs, held>>

\* replica r calls state_vector(): &self, the caller keeps the returned map
CallStateVector(r) ==
    /\ held' = [r |-> r, sv |-> StateVector(docs[r])]
    /\ last' = [NoCall EXCEPT !.op = "state_vector", !.r = r, !.pre = docs[r]]
    /\ UNCHANGED docs

\* replica r calls diff(remote): &self, the Vec goes to the caller
CallDiff(r, remote) ==
    /\ Diff(docs[r], remote) \in Seq(StoreOf(docs[r]))
    /\ last' = [NoCall EXCEPT !.op = "diff", !.r = r, !.pre = docs[r]]
    /\ UNCHANGED <<docs, held>>

Positions == 0..MaxPos

RECURSIVE SumClocks(_)
SumClocks(rs) ==
    IF rs = {} THEN 0
    ELSE LET r == CHOOSE x \in rs : TRUE
         IN docs[r].clock + SumClocks(rs \ {r})

\* one document edited locally
LocalInsert == \E pos \in Positions, text \in Texts :
                   CallInsert(Local, pos, text, MaxClock - docs[Local].clock)
LocalDelete == \E pos \in Positions, len \in Positions :
                   CallDelete(Local, pos, len, MaxClock - docs[Local].clock)

NextLocal == LocalInsert \/ LocalDelete

SpecLocal == Init /\ [][NextLocal]_vars

\* replica r asks its resolver to order items a and b, handing it its store
CallResolve(r, a, b) ==
    /\ last' = [NoCall EXCEPT !.op = "resolve", !.r = r, !.update = <<a, b>>,
                              !.result = Resolve(a, b, docs[r].items),
                              !.pre = docs[r]]
    /\ UNCHANGED <<docs, held>>

\* one document edited locally and read between the edits
RemoteVectors == {<<>>, docs[Local].state_vector, held.sv}

ReadValue == CallValue(Local)
ReadStateVector == CallStateVector(Local)
ReadDiff == \E remote \in RemoteVectors : CallDiff(Local, remote)

ReadInsert == \E pos \in 0..MaxNetPos, text \in Texts :
                  CallInsert(Local, pos, text, MaxNetClock - docs[Local].clock)
ReadDelete == \E pos \in 0..MaxNetPos, len \in 0..MaxNetPos :
                  CallDelete(Local, pos, len, MaxNetClock - docs[Local].clock)

NextRead == ReadInsert \/ ReadDelete \/ ReadValue \/ ReadStateVector
                \/ ReadDiff

SpecRead == Init /\ [][NextRead]_vars

\* one document edited locally that also applies updates of a peer; the
\* peer has typed "yz" and then "x" between the two characters
PeerDoc == Insert(Insert(NewDoc(Peer), 0, <<"y", "z">>), 1, <<"x">>)

InitDoc ==
    /\ docs = [r \in Replicas |-> IF r = Peer THEN PeerDoc ELSE NewDoc(r)]
    /\ last = NoCall
    /\ held = NoSnapshot

DocApply == \E update \in Updates(docs[Peer]) :
                CallApply(Local, Peer, update)

NextDoc == LocalInsert \/ LocalDelete \/ DocApply

SpecDoc == InitDoc /\ [][NextDoc]_vars

\* several replicas editing and exchanging updates
NetPositions == 0..MaxNetPos

NetInsert == \E r \in Replicas, pos \in NetPositions, text \in Texts :
                 CallInsert(r, pos, text, MaxNetClock - SumClocks(Replicas))
NetDelete == \E r \in Replicas, pos \in NetPositions, len \in NetPositions :
                 CallDelete(r, pos, len, MaxNetClock - SumClocks(Replicas))
NetApply == \E r \in Replicas, s \in Replicas :
                 \E update \in Updates(docs[s]) : CallApply(r, s, update)
NetSync == \E r \in Replicas, s \in Replicas : CallSync(r, s)

Next == NetInsert \/ NetDelete \/ NetApply \/ NetSync

Spec == Init /\ [][Next]_vars

\* several replicas editing, each ordering pairs of the items stored anywhere
AllStored == UNION {StoreOf(docs[s]) : s \in Replicas}

NetResolve == \E r \in Replicas : \E a \in AllStored, b \in AllStored :
                  CallResolve(r, a, b)

NextResolve == NetInsert \/ NetDelete \/ NetResolve

SpecResolve == Init /\ [][NextResolve]_vars

(* ---------------- helpers of the properties ---------------- *)

\* the document the last call acted on, as it is now
Cur == docs[last.r]

\* visible length of a document
VisLen(doc) == Len(Value(doc))

Min(a, b) == IF a < b THEN a ELSE b

\* every item met walking right from `current`, tombstones included
RECURSIVE ChainFrom(_, _)
ChainFrom(doc, current) ==
    IF current = None
    THEN <<>>
    ELSE LET item == doc.items[Unwrap(current)]
         IN <<item>> \o ChainFrom(doc, item.right)

DocChain(doc) == ChainFrom(doc, doc.head)

HasTombstone(doc) == \E id \in DOMAIN doc.items : doc.items[id].is_deleted

\* number of characters held by the items of a set, tombstones included
RECURSIVE TotalChars(_)
TotalChars(its) ==
    IF its = {} THEN 0
    ELSE LET it == CHOOSE x \in its : TRUE
         IN Len(it.content) + TotalChars(its \ {it})

\* the state vector's entry for a replica, 0 when absent
SvGet(sv, c) == IF c \in DOMAIN sv THEN sv[c] ELSE 0

\* the last two calls were replicas r and s each applying the other's whole
\* store, and no other replica holds items: r and s have applied the same
\* set of operations
Exchanged(r, s) ==
    /\ last.op = "apply" /\ last.r = r /\ last.from = s
    /\ last.full /\ last.mirror
    /\ \A t \in Replicas \ {r, s} : DOMAIN docs[t].items = {}

(* ---------------- properties ---------------- *)

\* C1: two replicas that have applied the same set of operations show the
\* same value()
C1_Convergence ==
    \A r \in Replicas, s \in Replicas :
        (r # s /\ Exchanged(r, s)) => Value(docs[r]) = Value(docs[s])

\* C2: after insert(pos, text) with non-empty text and pos within the
\* visible length, value() is the old value with text spliced in at pos
C2_InsertSplicesText ==
    (last.op = "insert" /\ last.text # <<>> /\ last.pos <= VisLen(last.pre))
    => LET v == Value(last.pre)
       IN Value(Cur) = SubSeq(v, 1, last.pos) \o last.text
                         \o SubSeq(v, last.pos + 1, Len(v))

\* C2 witness: an insert strictly inside an item of a document that holds a
\* tombstone
C2_Witness ==
    /\ last.op = "insert" /\ last.text # <<>>
    /\ last.pos <= VisLen(last.pre)
    /\ FindPos(last.pre, last.pos).offset > 0
    /\ HasTombstone(last.pre)

\* C3: after delete(pos, len) with len > 0 and pos below the visible length
\* L, value() is the old value without the characters at [pos, min(pos+len, L))
C3_DeleteRemovesRange ==
    (last.op = "delete" /\ last.len > 0 /\ last.pos < VisLen(last.pre))
    => LET v == Value(last.pre)
           stop == Min(last.pos + last.len, Len(v))
       IN Value(Cur) = SubSeq(v, 1, last.pos) \o SubSeq(v, stop + 1, Len(v))

\* C3 witness: a delete that walks over a tombstone lying between two
\* visible items it deletes, with a length running past the end
C3_Witness ==
    /\ last.op = "delete" /\ last.len > 0
    /\ last.pos < VisLen(last.pre)
    /\ last.pos + last.len > VisLen(last.pre)
    /\ LET ch == DocChain(last.pre)
       IN \E i, j, k \in 1..Len(ch) :
            /\ i < j /\ j < k
            /\ ~ch[i].is_deleted /\ ch[j].is_deleted /\ ~ch[k].is_deleted
            /\ Cur.items[ch[i].id].is_deleted
            /\ Cur.items[ch[k].id].is_deleted

C6_DiffRoundTrip ==
    (/\ last.op = "sync"
     /\ StoreOf(last.pre) \subseteq StoreOf(docs[last.from])
     /\ Cur.pending = <<>>)
    => Value(Cur) = Value(docs[last.from])

\* the items diff owes a remote: per replica of the local state vector, the
\* stored items with clock in (remote max, local max]
Owed(doc, remote) ==
    {it \in StoreOf(doc) :
        /\ it.id.client \in DOMAIN doc.state_vector
        /\ SvGet(remote, it.id.client) < it.id.clock
        /\ it.id.clock <= doc.state_vector[it.id.client]}

\* C7: diff(remote) returns exactly the items owed, and is not empty when
\* the document holds an item the remote lacks
C7_DiffReturnsMissing ==
    last.op = "sync"
    => /\ ItemsOf(last.update) = Owed(docs[last.from], StateVector(last.pre))
       /\ (\E id \in DOMAIN docs[last.from].items : id \notin DOMAIN last.pre.items)
              => last.update # <<>>

\* C8: insert past the visible length fails with InvalidPosition and leaves
\* the document unchanged
C8_InsertRejectsPastEnd ==
    (last.op = "insert" /\ last.text # <<>> /\ last.pos > VisLen(last.pre))
    => (last.result = "InvalidPosition" /\ Cur = last.pre)

\* C9: delete starting past the visible length fails with InvalidPosition
C9_DeleteRejectsPastEnd ==
    (last.op = "delete" /\ last.len > 0 /\ last.pos > VisLen(last.pre))
    => last.result = "InvalidPosition"

\* C10: no call removes an id from an item store, no call turns is_deleted
\* from true back to false, and a delete erases no stored character: it only
\* sets flags (and splits)
C10_TombstonesPersist ==
    [][\A r \in Replicas :
          /\ \A id \in DOMAIN docs[r].items :
                /\ id \in DOMAIN docs'[r].items
                /\ docs[r].items[id].is_deleted => docs'[r].items[id].is_deleted
          /\ last'.op = "delete"
                => TotalChars(StoreOf(docs'[r])) = TotalChars(StoreOf(docs[r]))]_vars

\* C10 witness: a delete has walked over an item deleted earlier, which is
\* still in the store and still deleted
C10_Witness ==
    /\ last.op = "delete" /\ Cur # last.pre
    /\ LET ch == DocChain(last.pre)
       IN \E i, j \in 1..Len(ch) :
            /\ i < j
            /\ ~ch[i].is_deleted /\ ch[j].is_deleted
            /\ Cur.items[ch[i].id].is_deleted
            /\ ch[j].id \in DOMAIN Cur.items
            /\ Cur.items[ch[j].id].is_deleted

\* ids of the items met walking right from head
ChainIds(doc) == {DocChain(doc)[i].id : i \in 1..Len(DocChain(doc))}

\* every left / right pointer of a set of ids is answered by the neighbour
LinkedBack(doc, ids) ==
    \A id \in ids :
        LET x == doc.items[id]
        IN /\ IsSome(x.right) =>
                /\ Unwrap(x.right) \in DOMAIN doc.items
                /\ doc.items[Unwrap(x.right)].left = Some(id)
           /\ IsSome(x.left) =>
                /\ Unwrap(x.left) \in DOMAIN doc.items
                /\ doc.items[Unwrap(x.left)].right = Some(id)

\* C11: all stored items, tombstones included, form one doubly linked list
\* rooted at head: each is reached from head by right pointers and each
\* pointer is answered by the neighbour's opposite pointer
C11_OneLinkedList ==
    \A r \in Replicas :
        /\ ChainIds(docs[r]) = DOMAIN docs[r].items
        /\ LinkedBack(docs[r], DOMAIN docs[r].items)

\* the split_item call the delete loop makes (the partial deletion), as a
\* one-element sequence of [doc, id, offset], or none: the walk of
\* DeleteLoop up to its split
RECURSIVE DeleteLoopSplit(_, _, _)
DeleteLoopSplit(doc, current_id, remaining) ==
    IF remaining = 0 \/ current_id \notin DOMAIN doc.items
    THEN <<>>
    ELSE LET item == doc.items[current_id]
             item_len == CharCount(item.content)
             next == item.right
         IN IF item.is_deleted
            THEN IF next = None
                 THEN <<>>
                 ELSE DeleteLoopSplit(doc, Unwrap(next), remaining)
            ELSE IF remaining < item_len
                 THEN <<[doc |-> doc, id |-> current_id, offset |-> remaining]>>
                 ELSE IF next = None
                      THEN <<>>
                      ELSE DeleteLoopSplit(
                               [doc EXCEPT !.items[current_id].is_deleted = TRUE],
                               Unwrap(next), remaining - item_len)

\* the split_item call insert makes before minting the new item
InsertSplit(doc, pos, text) ==
    LET fp == FindPos(doc, pos)
    IN IF text # <<>> /\ IsSome(fp.right) /\ fp.offset > 0
       THEN <<[doc |-> doc, id |-> Unwrap(fp.right), offset |-> fp.offset]>>
       ELSE <<>>

\* the split_item call delete makes at its start position
DeleteStartSplit(doc, pos, len) ==
    LET fp == FindPos(doc, pos)
    IN IF len > 0 /\ IsSome(fp.right) /\ fp.offset > 0
       THEN <<[doc |-> doc, id |-> Unwrap(fp.right), offset |-> fp.offset]>>
       ELSE <<>>

\* the split_item call of delete's loop, made after the start split
DeleteWalkSplit(doc, pos, len) ==
    LET fp == FindPos(doc, pos)
        st == DeleteStartSplit(doc, pos, len)
        d1 == IF st = <<>> THEN doc
              ELSE SplitItem(doc, st[1].id, st[1].offset).doc
    IN IF len > 0 /\ IsSome(fp.right)
       THEN DeleteLoopSplit(d1, Unwrap(fp.right), len)
       ELSE <<>>

\* the split_item calls made by the last call, in order
LastSplits ==
    IF last.op = "insert"
    THEN InsertSplit(last.pre, last.pos, last.text)
    ELSE IF last.op = "delete"
    THEN DeleteStartSplit(last.pre, last.pos, last.len)
            \o DeleteWalkSplit(last.pre, last.pos, last.len)
    ELSE <<>>

\* what C12 says of one split_item(id, offset) call on document d
SplitKeepsRightId(d, id, offset) ==
    LET old == d.items[id]
        sp == SplitItem(d, id, offset)
        new == sp.doc.items
    IN /\ 0 < offset /\ offset < Len(old.content)
       /\ id \in DOMAIN new
       /\ new[id].id = id
       /\ new[id].is_deleted = old.is_deleted
       /\ new[id].right = old.right
       /\ new[id].content = SubSeq(old.content, offset + 1, Len(old.content))
       /\ sp.id \notin DOMAIN d.items
       /\ sp.id = MkID(d.client_id, d.clock)
       /\ sp.id \in DOMAIN new
       /\ new[sp.id].id = sp.id
       /\ new[sp.id].content = SubSeq(old.content, 1, offset)
       /\ DOMAIN new = (DOMAIN d.items) \cup {sp.id}

\* C12: every split made by an insert or a delete leaves the original id on
\* the right-hand remainder (flag and right pointer kept, content the rest)
\* and stores the first offset characters under a fresh id whose clock is
\* the replica's clock before the split
C12_SplitKeepsRightId ==
    /\ \A i \in 1..Len(LastSplits) :
          SplitKeepsRightId(LastSplits[i].doc, LastSplits[i].id,
                            LastSplits[i].offset)
    /\ \A i \in 1..Len(LastSplits) :
          /\ LastSplits[i].id \in DOMAIN Cur.items
          /\ MkID(Cur.client_id, LastSplits[i].doc.clock) \in DOMAIN Cur.items
          /\ Cur.items[MkID(Cur.client_id, LastSplits[i].doc.clock)].content
               = SubSeq(LastSplits[i].doc.items[LastSplits[i].id].content,
                        1, LastSplits[i].offset)

\* C12 witness: a delete split the item where its budget ran out, in a
\* document that holds a tombstone
C12_Witness ==
    /\ last.op = "delete"
    /\ DeleteWalkSplit(last.pre, last.pos, last.len) # <<>>
    /\ HasTombstone(last.pre)

\* an item names a neighbour the store does not hold
Blocked(doc, it) ==
    \/ IsSome(it.left) /\ Unwrap(it.left) \notin DOMAIN doc.items
    \/ IsSome(it.right) /\ Unwrap(it.right) \notin DOMAIN doc.items

\* C13: an applied item that is new to the store and names a neighbour the
\* store does not hold is kept in the pending buffer
C13_BlockedItemIsBuffered ==
    last.op = "apply"
    => \A i \in 1..Len(last.update) :
          (/\ last.update[i].id \notin DOMAIN last.pre.items
           /\ Blocked(Cur, last.update[i]))
          => \E j \in 1..Len(Cur.pending) : Cur.pending[j] = last.update[i]

\* C14: insert(pos, "") and delete(pos, 0) leave the document as it was:
\* item store with its links, head, clock, state vector, pending and value(),
\* and they split nothing
C14_EmptyEditIsNoop ==
    (\/ last.op = "insert" /\ last.text = <<>>
     \/ last.op = "delete" /\ last.len = 0)
    => /\ Cur = last.pre
       /\ Value(Cur) = Value(last.pre)
       /\ DOMAIN Cur.items = DOMAIN last.pre.items
       /\ Cur.clock = last.pre.clock
       /\ LastSplits = <<>>

\* C14 witness: a delete of length 0 at a position strictly inside an item of
\* a document that already holds a tombstone
C14_Witness ==
    /\ last.op = "delete" /\ last.len = 0
    /\ FindPos(last.pre, last.pos).offset > 0
    /\ HasTombstone(last.pre)

\* character counts of the contents the last call minted identifiers for, in
\* call order: the left part of each split, then the inserted text
MintLens ==
    [i \in 1..Len(LastSplits) |-> LastSplits[i].offset]
        \o (IF last.op = "insert" /\ last.text # <<>>
            THEN <<Len(last.text)>>
            ELSE <<>>)

RECURSIVE SumSeq(_)
SumSeq(ns) == IF ns = <<>> THEN 0 ELSE Head(ns) + SumSeq(Tail(ns))

\* the clock just before the k-th mint of the last call
ClockBefore(k) == last.pre.clock + SumSeq(SubSeq(MintLens, 1, k - 1))

\* C15: every identifier minted by an insert or a split carries the clock
\* from just before the mint, the clock then advances by the character count
\* of the content minted for, and whenever clock > 0 the state vector entry
\* for the replica's own id is clock - 1
C15_MintCarriesClock ==
    /\ \A r \in Replicas :
          LET d == docs[r]
          IN /\ d.clock > 0 => /\ d.client_id \in DOMAIN d.state_vector
                               /\ d.state_vector[d.client_id] = d.clock - 1
             /\ d.clock = 0 => d.client_id \notin DOMAIN d.state_vector
    /\ last.op \in {"insert", "delete"}
       => /\ Cur.clock = last.pre.clock + SumSeq(MintLens)
          /\ DOMAIN Cur.items \ DOMAIN last.pre.items
                = {MkID(Cur.client_id, ClockBefore(k)) : k \in 1..Len(MintLens)}
          /\ \A k \in 1..Len(MintLens) :
                LET id == MkID(Cur.client_id, ClockBefore(k))
                IN /\ id \in DOMAIN Cur.items
                   /\ Cur.items[id].id = id
                   /\ Len(Cur.items[id].content) = MintLens[k]

\* C15 witness: an insert of two characters strictly inside an item mints
\* twice, for the split and for the text, on a clock that already advanced
C15_Witness ==
    /\ last.op = "insert"
    /\ Len(MintLens) = 2
    /\ Len(last.text) = 2
    /\ MintLens[1] = 1
    /\ last.pre.clock > 0

ReadOps == {"value", "state_vector", "diff"}

\* C16: state_vector(), diff(remote) and value() leave every document (item
\* store, head, clock, state vector, pending) as it was; state_vector()
\* hands out the document's map as it is at the call, and no later call
\* other than another state_vector() alters the map handed out
C16_ReadsArePure ==
    [][/\ last'.op \in ReadOps => docs' = docs
       /\ last'.op = "state_vector"
          => held' = [r |-> last'.r, sv |-> docs[last'.r].state_vector]
       /\ last'.op # "state_vector" => held' = held]_vars

\* C16 witness: a read made after edits that followed a state_vector() call:
\* the map handed out then differs from the document's state vector now
C16_Witness ==
    /\ last.op \in {"value", "diff"}
    /\ held.r = last.r
    /\ held.sv # <<>>
    /\ held.sv # docs[held.r].state_vector
    /\ HasTombstone(Cur)

\* number of characters in the first k items of a sequence of items
PrefixLen(its, k) == Len(Concat(SubSeq(its, 1, k)))

\* what C17 says find_pos(pos) returns on document doc, told from the
\* visible items in list order
FindPosExpected(doc, pos) ==
    LET vis == IterFrom(doc, doc.head)
        n == Len(vis)
    IN IF pos < PrefixLen(vis, n)
       THEN LET k == CHOOSE i \in 1..n :
                         /\ PrefixLen(vis, i - 1) <= pos
                         /\ pos < PrefixLen(vis, i)
            IN [left   |-> IF k > 1 THEN Some(vis[k - 1].id) ELSE None,
                right  |-> Some(vis[k].id),
                offset |-> pos - PrefixLen(vis, k - 1)]
       ELSE [left   |-> IF n > 0 THEN Some(vis[n].id) ELSE None,
             right  |-> None,
             offset |-> 0]

\* C17: find_pos(pos) below the visible length returns the non-deleted item
\* holding the pos-th visible character as right, that character's index in
\* it as offset, and the last non-deleted item before it as left; at or past
\* the visible length it returns (last visible item or none, none, 0);
\* neither left nor right is a tombstone
C17_FindPosLocates ==
    \A r \in Replicas :
        \A pos \in 0..(VisLen(docs[r]) + 1) :
            LET doc == docs[r]
                fp == FindPos(doc, pos)
            IN /\ fp = FindPosExpected(doc, pos)
               /\ IsSome(fp.right)
                  => /\ pos < VisLen(doc)
                     /\ ~doc.items[Unwrap(fp.right)].is_deleted
                     /\ fp.offset >= 0
                     /\ fp.offset < Len(doc.items[Unwrap(fp.right)].content)
               /\ IsSome(fp.left) => ~doc.items[Unwrap(fp.left)].is_deleted
               /\ pos >= VisLen(doc) => fp.right = None /\ fp.offset = 0

\* C17 witness: an edit whose find_pos call skipped a tombstone at the head
\* and stopped strictly inside the item after it
C17_Witness ==
    /\ last.op \in {"insert", "delete"}
    /\ IsSome(last.pre.head)
    /\ last.pre.items[Unwrap(last.pre.head)].is_deleted
    /\ FindPos(last.pre, last.pos).offset > 0
    /\ FindPos(last.pre, last.pos).left = None

\* what C18 says of split_item(id, offset) called on document d: in list
\* order the new left item comes right before the original one, their
\* contents put together are the original content, and value() is as before
SplitRoundTrip(d, id, offset) ==
    LET sp == SplitItem(d, id, offset)
        chain == DocChain(sp.doc)
    IN /\ \E i \in 1..(Len(chain) - 1) :
             /\ chain[i].id = sp.id
             /\ chain[i + 1].id = id
             /\ chain[i].content \o chain[i + 1].content = d.items[id].content
       /\ Value(sp.doc) = Value(d)

\* C18: for any item on the list and any offset with 0 < offset <
\* len(content), split_item puts the new left item right before the original
\* one, keeps their concatenated contents equal to the original content and
\* leaves value() unchanged
C18_SplitRoundTrip ==
    \A r \in Replicas :
        \A id \in ChainIds(docs[r]) :
            \A offset \in 1..(Len(docs[r].items[id].content) - 1) :
                SplitRoundTrip(docs[r], id, offset)

\* the ids met walking right from `current`, for at most `fuel` steps; the
\* walk stops after an id that does not resolve in the store
RECURSIVE WalkIds(_, _, _)
WalkIds(doc, current, fuel) ==
    IF current = None \/ fuel = 0
    THEN <<>>
    ELSE LET id == Unwrap(current)
         IN IF id \notin DOMAIN doc.items
            THEN <<id>>
            ELSE <<id>> \o WalkIds(doc, doc.items[id].right, fuel - 1)

\* the chain from head of a document is well formed
ChainWellFormed(doc) ==
    LET n == Cardinality(DOMAIN doc.items)
        w == WalkIds(doc, doc.head, n + 1)
    IN /\ \A i \in 1..Len(w) : w[i] \in DOMAIN doc.items
       /\ \A i, j \in 1..Len(w) : i # j => w[i] # w[j]
       /\ Len(w) <= n
       /\ Len(w) > 0 => /\ doc.items[w[1]].left = None
                        /\ doc.items[w[Len(w)]].right = None
       /\ \A i \in 1..(Len(w) - 1) :
             /\ doc.items[w[i]].right = Some(w[i + 1])
             /\ doc.items[w[i + 1]].left = Some(w[i])

\* C19: after local inserts and deletes the chain walked from head by right
\* pointers is well formed: every id on it resolves in the store, the head
\* item has no left neighbour, each right neighbour points back with its
\* left pointer, and the chain has no cycle and ends at an item without a
\* right neighbour, so the value() traversal terminates
C19_ChainWellFormed ==
    \A r \in Replicas : ChainWellFormed(docs[r])

\* C19 witness: an insert landed between two items, next to a tombstone that
\* is still on the chain, in a document that has already lost a tombstone
\* from the chain
C19_Witness ==
    /\ last.op = "insert"
    /\ Len(DocChain(Cur)) >= 3
    /\ \E i \in 1..Len(DocChain(Cur)) : DocChain(Cur)[i].is_deleted
    /\ ChainIds(Cur) # DOMAIN Cur.items

\* the ids the last call added to the store
NewIds == DOMAIN Cur.items \ DOMAIN last.pre.items

\* the position of the last call falls strictly inside a visible item of the
\* document as it was before the call
InsideItem ==
    /\ last.pos < VisLen(last.pre)
    /\ FindPosExpected(last.pre, last.pos).offset > 0

\* C20: a non-empty insert creates exactly one item holding the whole text;
\* the store grows by one item when pos is on an item boundary, at the start
\* or at the end, by two (the new item and the left half of one split) when
\* pos is strictly inside a visible item, and never by more
C20_InsertCreatesOneItem ==
    (last.op = "insert" /\ last.text # <<>>)
    => LET tid == MkID(Cur.client_id, Cur.clock - Len(last.text))
           rid == Unwrap(FindPosExpected(last.pre, last.pos).right)
       IN /\ DOMAIN last.pre.items \subseteq DOMAIN Cur.items
          /\ tid \in NewIds
          /\ Cur.items[tid].content = last.text
          /\ ~Cur.items[tid].is_deleted
          /\ Cardinality(NewIds) = IF InsideItem THEN 2 ELSE 1
          /\ \A id \in NewIds \ {tid} :
                /\ InsideItem
                /\ Cur.items[id].right = Some(tid)
                /\ Cur.items[id].content \o Cur.items[rid].content
                      = last.pre.items[rid].content
          /\ TotalChars(StoreOf(Cur))
                = TotalChars(StoreOf(last.pre)) + Len(last.text)

\* C20 witness: a two-character insert strictly inside an item, after the
\* start of the text, added the new item and one left half
C20_Witness ==
    /\ last.op = "insert"
    /\ Len(last.text) = 2
    /\ last.pos > 0
    /\ InsideItem
    /\ Cardinality(NewIds) = 2
    /\ Value(Cur) = <<"y", "y", "z", "z">>

\* items that differ from `it` in content, links or deletion flag only
Variants(it) ==
    {[it EXCEPT !.is_deleted = ~@],
     [it EXCEPT !.content = <<"x">> \o @],
     [it EXCEPT !.left = None],
     [it EXCEPT !.right = Some(it.id)]}

\* a's id comes before b's: smaller replica id, or the same replica id and a
\* smaller clock
IdBefore(a, b) ==
    \/ a.id.client < b.id.client
    \/ a.id.client = b.id.client /\ a.id.clock < b.id.clock

\* C21: YataResolver::resolve orders two items by identifier alone, replica
\* id first and clock second; it answers for every pair, says Equal only for
\* equal ids, resolve(a, b) is the reverse of resolve(b, a), it is
\* transitive, and its answer does not depend on the store handed in nor on
\* the items' content, links or deletion flag
C21_ResolveOrdersById ==
    /\ last.op = "resolve"
       => LET a == last.update[1]
              b == last.update[2]
          IN /\ last.result \in {Less, Equal, Greater}
             /\ last.result = Less <=> IdBefore(a, b)
             /\ last.result = Greater <=> IdBefore(b, a)
             /\ last.result = Equal <=> a.id = b.id
    /\ \A a \in AllStored, b \in AllStored :
          LET ab == Resolve(a, b, docs[Local].items)
          IN /\ ab = Reverse(Resolve(b, a, docs[Local].items))
             /\ \A s \in Replicas : Resolve(a, b, docs[s].items) = ab
             /\ \A a2 \in Variants(a), b2 \in Variants(b) :
                   Resolve(a2, b2, docs[Local].items) = ab
             /\ \A c \in AllStored :
                   (ab = Less /\ Resolve(b, c, docs[Local].items) = Less)
                       => Resolve(a, c, docs[Local].items) = Less

\* C21 witness: the resolver put an item of a smaller replica id and larger
\* clock before a tombstone of a larger replica id, with its own store not
\* holding the second item
C21_Witness ==
    /\ last.op = "resolve"
    /\ last.update[1].id.client < last.update[2].id.client
    /\ last.update[1].id.clock > last.update[2].id.clock
    /\ last.update[2].is_deleted
    /\ last.update[2].id \notin DOMAIN Cur.items
    /\ last.result = Less

\* the clock values an item covers: one per character, from its id's clock
ClockInterval(it) == it.id.clock .. (it.id.clock + Len(it.content) - 1)

\* C22: after local inserts and deletes every stored item carries the
\* document's own replica id, no two stored items share an id, the clock
\* intervals [id.clock, id.clock + len(content)) of distinct stored items
\* are pairwise disjoint and lie below the document's clock, and no call
\* makes the clock smaller
C22_IdsNeverReused ==
    /\ \A r \in Replicas :
          LET d == docs[r]
          IN /\ \A id \in DOMAIN d.items :
                   /\ d.items[id].id = id
                   /\ id.client = d.client_id
                   /\ \A c \in ClockInterval(d.items[id]) : c < d.clock
             /\ \A a \in StoreOf(d), b \in StoreOf(d) :
                   a # b => /\ a.id # b.id
                            /\ ClockInterval(a) \cap ClockInterval(b) = {}
             /\ Cardinality(StoreOf(d)) = Cardinality(DOMAIN d.items)
    /\ last.op \in {"insert", "delete"}
       => /\ Cur.clock >= last.pre.clock
          /\ \A id \in DOMAIN last.pre.items :
                /\ id \in DOMAIN Cur.items
                /\ ClockInterval(Cur.items[id])
                      \subseteq ClockInterval(last.pre.items[id])

\* C22 witness: a delete split an item of a document that already held a
\* tombstone, leaving at least three items and a clock past the number of
\* stored characters (the shortened original no longer covers its old range)
C22_Witness ==
    /\ last.op = "delete"
    /\ Len(LastSplits) >= 1
    /\ HasTombstone(last.pre)
    /\ Cardinality(DOMAIN Cur.items) >= 3
    /\ Cur.clock > TotalChars(StoreOf(Cur))

\* the tombstones of a document
Tombstones(doc) == {id \in DOMAIN doc.items : doc.items[id].is_deleted}

\* what C23 says of insert(pos, text) followed by delete(pos, n) on document
\* d, n the number of characters of text
InsertDeleteRoundTrip(d, pos, text) ==
    LET d1 == Insert(d, pos, text)
        d2 == Delete(d1, pos, Len(text))
        new_id == MkID(d.client_id, d1.clock - Len(text))
    IN /\ Value(d1) # Value(d)
       /\ Value(d2) = Value(d)
       /\ Tombstones(d2) \ Tombstones(d1) = {new_id}
       /\ new_id \notin DOMAIN d.items
       /\ d1.items[new_id].content = text
       /\ d2 = [d1 EXCEPT !.items[new_id].is_deleted = TRUE]

\* C23: in any reachable state, for any non-empty text of n characters and
\* any pos from 0 to the visible length, insert(pos, text) followed by
\* delete(pos, n) brings value() back to what it was, and the delete
\* tombstones the item created for text and nothing else.  The last
\* conjunct says the same of a delete call that starts at the newest item of
\* the document and has its length.
C23_InsertDeleteRoundTrip ==
    /\ \A r \in Replicas :
          \A pos \in 0..VisLen(docs[r]) :
              \A text \in Texts \ {<<>>} :
                  InsertDeleteRoundTrip(docs[r], pos, text)
    /\ (/\ last.op = "delete"
        /\ last.len > 0
        /\ last.pre.clock >= last.len
        /\ LET nid == MkID(last.pre.client_id, last.pre.clock - last.len)
           IN /\ nid \in DOMAIN last.pre.items
              /\ Len(last.pre.items[nid].content) = last.len
              /\ FindPos(last.pre, last.pos)
                    = [FindPos(last.pre, last.pos) EXCEPT
                         !.right = Some(nid), !.offset = 0])
       => LET nid == MkID(last.pre.client_id, last.pre.clock - last.len)
          IN /\ Cur = [last.pre EXCEPT !.items[nid].is_deleted = TRUE]
             /\ Value(last.pre)
                   = SubSeq(Value(Cur), 1, last.pos)
                        \o last.pre.items[nid].content
                        \o SubSeq(Value(Cur), last.pos + 1, VisLen(Cur))

\* C23 witness: a delete(pos, 2) removed the two-character item that the
\* call before it had inserted after the start of a text holding a
\* tombstone, and visible text is left
C23_Witness ==
    /\ last.op = "delete"
    /\ last.len = 2
    /\ last.pos > 0
    /\ HasTombstone(last.pre)
    /\ last.pre.clock >= 2
    /\ LET nid == MkID(last.pre.client_id, last.pre.clock - 2)
       IN /\ nid \in DOMAIN last.pre.items
          /\ last.pre.items[nid].content = <<"y", "z">>
          /\ ~last.pre.items[nid].is_deleted
          /\ FindPos(last.pre, last.pos).right = Some(nid)
          /\ Tombstones(Cur) \ Tombstones(last.pre) = {nid}
    /\ VisLen(Cur) > 0

====
